---- MODULE Spec2Model ----
(***************************************************************************)
(* Model of the bracket/quote boundary scanner of vscode-extended-actions  *)
(* (src/src/exitSurrounding.ts): computeExitSelections and                 *)
(* computeEnterSelections over a text document and a list of selections.   *)
(* One call is modelled as a state machine whose steps are the iterations  *)
(* of the loops of the code: the loop over the selections, the outer scan  *)
(* loops and the loops of findMatchingClose / findMatchingOpen.            *)
(*                                                                         *)
(* The commands of src/src/extension.ts that drive the editor host,        *)
(* joinTwoGroupsInBackground and saveAllWithoutFormatting, are modelled as *)
(* state machines over the host's tab groups and text documents, one step  *)
(* per awaited call.                                                       *)
(***************************************************************************)
EXTENDS Integers, Sequences, FiniteSets, TLC

VARIABLES
    document,       \* the text buffer: a sequence of one-character strings
    selections,     \* the input selections (anchor, active), in order
    op,             \* "exit" (computeExitSelections) or "enter" (computeEnterSelections)
    newSelections,  \* the output list built so far
    i,              \* index (1-based) of the selection the for loop is at
    pc,             \* where the call is: "loop", "fwd", "bwd", "mclose", "mopen", "emit", "done"
    pos,            \* scan position of the outer scan
    closingOffset,  \* result of the outer scan of the current selection (-1: not found)
    mpos,           \* scan position of the nested-pair sub-scan
    depth,          \* depth counter of the nested-pair sub-scan
    openChar,       \* opening character of the sub-scan (Null when there is none)
    closeChar,      \* closing character of the sub-scan (Null when there is none)
    reads,          \* offsets read by the scan of the current selection, in order
    skips,          \* nested pairs the outer scan jumped over: <<opener offset, closer offset>>
    found,          \* closingOffset of every selection processed so far
    hpc,            \* where the host command is: "none", "call", "join", "find", "plan",
                    \* "navigate", "show", "save", "restore", "done"
    groups,         \* vscode.window.tabGroups.all: records [tabs, active (0-based, -1: none)]
    activeGroup,    \* index (1-based) of the active tab group
    groupTabsBeforeMerge,  \* local of joinTwoGroupsInBackground
    restoreTabId,   \* local of joinTwoGroupsInBackground (Null: undefined)
    direction,      \* local of joinTwoGroupsInBackground: "next" or "previous"
    count,          \* local of joinTwoGroupsInBackground
    issued,         \* how many of the count navigation commands have run
    executed,       \* commands executed and messages shown by the host command, in order
    atCall,         \* the host's state when the command was invoked
    isDirty,        \* vscode.workspace.textDocuments: document |-> isDirty
    activeDocument, \* document of vscode.window.activeTextEditor (Null: undefined)
    activeEditor,   \* local of saveAllWithoutFormatting
    dirtyDocs,      \* local of saveAllWithoutFormatting
    d               \* index (1-based) of the document the for loop is at

scanVars == <<document, selections, op, newSelections, i, pc, pos, closingOffset,
              mpos, depth, openChar, closeChar, reads, skips, found>>

hostVars == <<hpc, groups, activeGroup, groupTabsBeforeMerge, restoreTabId,
              direction, count, issued, executed, atCall, isDirty,
              activeDocument, activeEditor, dirtyDocs, d>>

vars == <<scanVars, hostVars>>

(***************************************************************************)
(* Bounds of the model.                                                    *)
(***************************************************************************)
MaxLen == 4          \* longest document of Spec
MaxLenNest == 4      \* longest document of SpecNest
MaxLenMulti == 2     \* longest document of SpecMulti
MaxSel == 2          \* longest selection list of SpecMulti
MaxLenLive == 3      \* longest document of SpecLive
MaxLenDepth == 4     \* longest document of SpecDepth
MaxLenRepeat == 3    \* longest document of SpecRepeat
MaxLenAnchor == 2    \* longest document of SpecAnchor
MaxTabs == 2         \* most tabs of a group of SpecJoin
MaxNavTabs == 6      \* most tabs of the group of SpecNav
MaxDocs == 3         \* most text documents of SpecSave

\* Characters the documents of Spec are made of: a bracket pair, a quote, the
\* escape marker, an ordinary character and the line separator.
Alphabet == {"(", ")", "\"", "\\", "a", "\n"}

\* Characters the documents of SpecNest are made of: two bracket types and an
\* ordinary character.
AlphabetNest == {"(", ")", "[", "]", "a"}

\* Characters the documents of SpecMulti are made of.
AlphabetMulti == {"(", ")", "a", "\n"}

\* Characters of the documents of SpecDepth: two bracket types, a quote and the
\* escape.
AlphabetDepth == {"(", ")", "[", "]", "\"", "\\"}

\* Characters of the documents of SpecLive: one bracket pair and the escape.
AlphabetLive == {"(", ")", "\\"}

Null == "null"

\* The grave accent character, which a TLA+ string cannot hold.
Backtick == "grave"

Min(a, b) == IF a < b THEN a ELSE b
Max(a, b) == IF a > b THEN a ELSE b

(***************************************************************************)
(* Character classification and the pair tables.                           *)
(***************************************************************************)
isOpeningChar(char) == char \in {"(", "[", "{", "\"", "'", Backtick}

isClosingChar(char) == char \in {")", "]", "}", "\"", "'", Backtick}

getOpeningChar(c) ==
    CASE c = ")" -> "("
      [] c = "]" -> "["
      [] c = "}" -> "{"
      [] c = "\"" -> "\""
      [] c = "'" -> "'"
      [] c = Backtick -> Backtick
      [] OTHER -> Null

getClosingChar(c) ==
    CASE c = "(" -> ")"
      [] c = "[" -> "]"
      [] c = "{" -> "}"
      [] c = "\"" -> "\""
      [] c = "'" -> "'"
      [] c = Backtick -> Backtick
      [] OTHER -> Null

(***************************************************************************)
(* The text document (vscode.TextDocument with "\n" line ends): offsets    *)
(* are 0-based, doc[k] is the character at offset k-1.                     *)
(***************************************************************************)
NewlineIdx(doc) == {k \in 1..Len(doc) : doc[k] = "\n"}

lineCount(doc) == 1 + Cardinality(NewlineIdx(doc))

\* Offset of the first character of a line.
LineStart(doc, line) ==
    IF line = 0 THEN 0
    ELSE CHOOSE k \in NewlineIdx(doc) :
             Cardinality({j \in NewlineIdx(doc) : j <= k}) = line

\* Number of characters of a line, its line end excluded.
LineLength(doc, line) ==
    LET e == IF line + 1 < lineCount(doc)
             THEN LineStart(doc, line + 1) - 1
             ELSE Len(doc)
    IN  e - LineStart(doc, line)

\* document.positionAt: the offset is clamped into the document.
positionAt(doc, offset) ==
    LET o == Max(0, Min(offset, Len(doc)))
        line == Cardinality({k \in NewlineIdx(doc) : k <= o})
    IN  [line |-> line, character |-> o - LineStart(doc, line)]

\* document.offsetAt: the position is validated (clamped) first.
offsetAt(doc, position) ==
    IF position.line < 0 THEN 0
    ELSE IF position.line >= lineCount(doc) THEN Len(doc)
    ELSE LineStart(doc, position.line)
           + Max(0, Min(position.character, LineLength(doc, position.line)))

\* document.getText(new vscode.Range(start, end)).
getText(doc, start, end) ==
    LET s == offsetAt(doc, start)
        e == offsetAt(doc, end)
    IN  SubSeq(doc, Min(s, e) + 1, Max(s, e))

\* The one-character read every scan loop does:
\* document.getText(new Range(positionAt(p), positionAt(p + 1))).
charAt(doc, p) ==
    LET t == getText(doc, positionAt(doc, p), positionAt(doc, p + 1))
    IN  IF t = <<>> THEN "" ELSE t[1]

\* document.offsetAt(document.lineAt(document.lineCount - 1).range.end)
docEnd(doc) ==
    LET lastLine == lineCount(doc) - 1
    IN  offsetAt(doc, [line |-> lastLine, character |-> LineLength(doc, lastLine)])

Selection(anchor, active) == [anchor |-> anchor, active |-> active]

(***************************************************************************)
(* Pieces of the scans.                                                    *)
(***************************************************************************)
\* Forward escape test: a backslash that is not the last character.
FwdEscape(char, p, end) == char = "\\" /\ p + 1 < end

\* Faulty variant: the look-behind is done at the first character too.
BwdLookBehindAlways(p) == TRUE

\* The backward loops look at the character before p only when there is one.
BwdLookBehind(p) == p > 0

\* Backward escape test: the character before p is a backslash.
BwdEscape(doc, p) == BwdLookBehind(p) /\ charAt(doc, p - 1) = "\\"

\* Offsets the backward loops read in one iteration at p.
BwdReads(p) == IF BwdLookBehind(p) THEN <<p, p - 1>> ELSE <<p>>

\* First position of the outer scans.
FwdStart(cursorOffset) == cursorOffset

\* Faulty variant: the backward scan starts on the character at the cursor.
BwdStartAtCursor(cursorOffset) == cursorOffset

BwdStart(cursorOffset) == cursorOffset - 1

\* Faulty variant: the forward scan steps into the nested pair instead of past it.
FwdResumeInto(p, match) == p + 1

\* Faulty variant: after a sub-scan without a match the outer scan stays on the
\* opener.
FwdResumeStay(p, match) == IF match >= 0 THEN match + 1 ELSE p

\* Faulty variant: after a sub-scan without a match the outer scan also steps
\* over the character after the opener.
FwdResumePastNext(p, match) == IF match >= 0 THEN match + 1 ELSE p + 2

\* Where the outer scan goes on after the sub-scan returned the offset match.
FwdResume(p, match) == IF match >= 0 THEN match + 1 ELSE p + 1

\* Faulty variant: after a sub-scan without a match the backward scan also
\* steps over the character before the opener.
BwdResumeTwo(p, match) == IF match >= 0 THEN match - 1 ELSE p - 2

BwdResume(p, match) == IF match >= 0 THEN match - 1 ELSE p - 1

\* Faulty variant: the cursor is put on the closing delimiter, not past it.
ExitSelectionOnCloser(doc, selection, closing) ==
    IF closing < 0 THEN selection
    ELSE LET newPos == positionAt(doc, closing)
         IN  Selection(newPos, newPos)

\* Faulty variant: the exit leaves every selection where it is.
ExitSelectionStays(doc, selection, closing) == selection

\* The selection computeExitSelections pushes for a scan result.
ExitSelection(doc, selection, closing) ==
    IF closing < 0 THEN selection
    ELSE LET closingPos == positionAt(doc, closing)
             newPos == [line |-> closingPos.line,
                        character |-> closingPos.character + 1]
         IN  Selection(newPos, newPos)

\* Faulty variant: the cursor is put past the closing delimiter, as the exit does.
EnterSelectionPastCloser(doc, selection, closing) ==
    ExitSelection(doc, selection, closing)

\* The selection computeEnterSelections pushes for a scan result.
EnterSelection(doc, selection, closing) ==
    IF closing < 0 THEN selection
    ELSE LET newPos == positionAt(doc, closing)
         IN  Selection(newPos, newPos)

(***************************************************************************)
(* The scans, one loop iteration at a time.  A scan state s holds the      *)
(* locals of the scan: pc, pos, closingOffset, mpos, depth, openChar,      *)
(* closeChar, and the history reads and skips.                             *)
(***************************************************************************)
\* The locals when the outer scan of a selection begins.
ScanInit(o, cursorOffset) ==
    [pc |-> IF o = "exit" THEN "fwd" ELSE "bwd",
     pos |-> IF o = "exit" THEN FwdStart(cursorOffset) ELSE BwdStart(cursorOffset),
     closingOffset |-> -1, mpos |-> 0, depth |-> 0,
     openChar |-> Null, closeChar |-> Null, reads |-> <<>>, skips |-> <<>>]

\* Faulty variant: the depth count starts at 0.
MCloseCallDepthZero(r, p, char) ==
    [r EXCEPT !.pc = "mclose", !.openChar = char,
              !.closeChar = getClosingChar(char),
              !.mpos = p + 1, !.depth = 0]

\* findMatchingClose(document, p, char) is entered from scan state r.
MCloseCall(r, p, char) ==
    [r EXCEPT !.pc = "mclose", !.openChar = char,
              !.closeChar = getClosingChar(char),
              !.mpos = p + 1, !.depth = 1]

\* findMatchingOpen(document, p, char) is entered from scan state r.
MOpenCall(r, p, char) ==
    [r EXCEPT !.pc = "mopen", !.closeChar = char,
              !.openChar = getOpeningChar(char),
              !.mpos = p - 1, !.depth = 1]

\* findNextClosingPosition: one iteration of its while loop (or its exit).
FwdNext(doc, s) ==
    IF s.pos >= docEnd(doc)
    THEN [s EXCEPT !.pc = "emit", !.closingOffset = -1]
    ELSE LET char == charAt(doc, s.pos)
             r == [s EXCEPT !.reads = Append(@, s.pos)]
         IN  IF FwdEscape(char, s.pos, docEnd(doc))
             THEN [r EXCEPT !.pos = @ + 2]
             ELSE IF isClosingChar(char)
             THEN [r EXCEPT !.pc = "emit", !.closingOffset = s.pos]
             ELSE IF isOpeningChar(char)
             THEN MCloseCall(r, s.pos, char)
             ELSE [r EXCEPT !.pos = @ + 1]

\* findMatchingClose returns `match` to findNextClosingPosition.
MCloseReturn(s, match) ==
    [s EXCEPT !.pc = "fwd",
              !.pos = FwdResume(s.pos, match),
              !.skips = IF match >= 0 THEN Append(@, <<s.pos, match>>) ELSE @]

\* findMatchingClose: its entry check, or one iteration of one of its loops.
MCloseNext(doc, s) ==
    IF s.closeChar = Null THEN MCloseReturn(s, -1)
    ELSE IF s.mpos >= docEnd(doc) THEN MCloseReturn(s, -1)
    ELSE LET char == charAt(doc, s.mpos)
             r == [s EXCEPT !.reads = Append(@, s.mpos)]
         IN  IF FwdEscape(char, s.mpos, docEnd(doc))
             THEN [r EXCEPT !.mpos = @ + 2]
             ELSE IF s.openChar = s.closeChar
             THEN \* quotes: the first occurrence ends the pair
                  IF char = s.closeChar
                  THEN MCloseReturn(r, s.mpos)
                  ELSE [r EXCEPT !.mpos = @ + 1]
             ELSE \* brackets: depth counting
                  IF char = s.openChar
                  THEN [r EXCEPT !.depth = @ + 1, !.mpos = @ + 1]
                  ELSE IF char = s.closeChar
                  THEN IF s.depth - 1 = 0
                       THEN MCloseReturn([r EXCEPT !.depth = @ - 1], s.mpos)
                       ELSE [r EXCEPT !.depth = @ - 1, !.mpos = @ + 1]
                  ELSE [r EXCEPT !.mpos = @ + 1]

\* findPreviousClosingPosition: one iteration of its while loop (or its exit).
BwdNext(doc, s) ==
    IF s.pos < 0
    THEN [s EXCEPT !.pc = "emit", !.closingOffset = -1]
    ELSE LET char == charAt(doc, s.pos)
             r == [s EXCEPT !.reads = @ \o BwdReads(s.pos)]
         IN  IF BwdEscape(doc, s.pos)
             THEN [r EXCEPT !.pos = @ - 2]
             ELSE IF isClosingChar(char)
             THEN [r EXCEPT !.pc = "emit", !.closingOffset = s.pos]
             ELSE IF isOpeningChar(char)
             THEN MOpenCall(r, s.pos, char)
             ELSE [r EXCEPT !.pos = @ - 1]

\* findMatchingOpen returns `match` to findPreviousClosingPosition.
MOpenReturn(s, match) ==
    [s EXCEPT !.pc = "bwd",
              !.pos = BwdResume(s.pos, match),
              !.skips = IF match >= 0 THEN Append(@, <<match, s.pos>>) ELSE @]

\* findMatchingOpen: its entry check, or one iteration of one of its loops.
MOpenNext(doc, s) ==
    IF s.openChar = Null THEN MOpenReturn(s, -1)
    ELSE IF s.mpos < 0 THEN MOpenReturn(s, -1)
    ELSE LET char == charAt(doc, s.mpos)
             r == [s EXCEPT !.reads = @ \o BwdReads(s.mpos)]
         IN  IF BwdEscape(doc, s.mpos)
             THEN [r EXCEPT !.mpos = @ - 2]
             ELSE IF s.openChar = s.closeChar
             THEN \* quotes: the first occurrence ends the pair
                  IF char = s.openChar
                  THEN MOpenReturn(r, s.mpos)
                  ELSE [r EXCEPT !.mpos = @ - 1]
             ELSE \* brackets: depth counting
                  IF char = s.closeChar
                  THEN [r EXCEPT !.depth = @ + 1, !.mpos = @ - 1]
                  ELSE IF char = s.openChar
                  THEN IF s.depth - 1 = 0
                       THEN MOpenReturn([r EXCEPT !.depth = @ - 1], s.mpos)
                       ELSE [r EXCEPT !.depth = @ - 1, !.mpos = @ - 1]
                  ELSE [r EXCEPT !.mpos = @ - 1]

\* One step of whichever loop the scan is in.
ScanNext(doc, s) ==
    CASE s.pc = "fwd" -> FwdNext(doc, s)
      [] s.pc = "mclose" -> MCloseNext(doc, s)
      [] s.pc = "bwd" -> BwdNext(doc, s)
      [] s.pc = "mopen" -> MOpenNext(doc, s)
      [] OTHER -> s

\* A scan run to its return.
RECURSIVE ScanRun(_, _)
ScanRun(doc, s) == IF s.pc = "emit" THEN s ELSE ScanRun(doc, ScanNext(doc, s))

\* A nested-pair sub-scan run to its return.
RECURSIVE SubRun(_, _)
SubRun(doc, s) ==
    IF s.pc \in {"mclose", "mopen"} THEN SubRun(doc, ScanNext(doc, s)) ELSE s

\* The scan state in which findMatchingClose(document, openPos, openChar),
\* called on its own, returns.
findMatchingClose(doc, openPos, char) ==
    SubRun(doc, MCloseCall(ScanInit("exit", openPos), openPos, char))

\* The scan state in which findMatchingOpen(document, closePos, closeChar),
\* called on its own, returns.
findMatchingOpen(doc, closePos, char) ==
    SubRun(doc, MOpenCall(ScanInit("enter", closePos + 1), closePos, char))

findNextClosingPosition(doc, startOffset) ==
    ScanRun(doc, ScanInit("exit", startOffset)).closingOffset

findPreviousClosingPosition(doc, startOffset) ==
    ScanRun(doc, ScanInit("enter", startOffset)).closingOffset

\* Faulty variant: a selection without a match is collapsed onto its active end.
NewSelectionCollapsed(doc, o, selection, closing) ==
    IF closing < 0 THEN Selection(selection.active, selection.active)
    ELSE IF o = "exit"
    THEN ExitSelection(doc, selection, closing)
    ELSE EnterSelection(doc, selection, closing)

\* The selection pushed for one input selection.
NewSelection(doc, o, selection, closing) ==
    IF o = "exit"
    THEN ExitSelection(doc, selection, closing)
    ELSE EnterSelection(doc, selection, closing)

(***************************************************************************)
(* The editor host as src/src/extension.ts sees it: tabs, tab groups and   *)
(* the built-in commands the extension executes.                           *)
(***************************************************************************)
\* URIs of text documents.
UriNames == <<"a", "b", "c", "d", "e", "f", "g", "h">>

\* URIs of the text documents shown in the tabs of the groups to join.
TextUris == {"a", "b"}

\* Terminals shown in the editor area.
Terminals == {"t1", "t2"}

\* A tab whose input is a TabInputText.
TextTab(uri) == [input |-> "text", key |-> uri, label |-> "file"]

\* A tab whose input is a TabInputTerminal: every terminal carries the name of
\* its shell as label.
TerminalTab(k) == [input |-> "terminal", key |-> k, label |-> "zsh"]

Tabs == {TextTab(u) : u \in TextUris} \cup {TerminalTab(k) : k \in Terminals}

\* getTabId: URI-based for text tabs, the label for terminals.
getTabId(tab) ==
    IF tab.input = "text" THEN "text:" \o tab.key ELSE "label:" \o tab.label

\* A tab group: its tabs in order and the 0-based index of its active tab
\* (-1 when it has none).
Group(tabs, active) == [tabs |-> tabs, active |-> active]

\* array.findIndex, given the 1-based places hits of the elements that pass
\* the test: the 0-based index of the first of them, or -1.
findIndex(hits) ==
    IF hits = {} THEN -1
    ELSE (CHOOSE k \in hits : \A j \in hits : k <= j) - 1

\* The tabs of group g that are active: one, or none.
activeTabs(g) == {g.tabs[k] : k \in {g.active + 1} \cap (1..Len(g.tabs))}

\* tabGroups.all.filter((group) => !group.isActive)
NonActiveGroups(gs, ag) ==
    [k \in 1..(Len(gs) - 1) |-> IF k < ag THEN gs[k] ELSE gs[k + 1]]

\* group.tabs.map((tab) => ({tabId: getTabId(tab), isActive: tab.isActive}))
TabsSnapshot(g) ==
    [k \in 1..Len(g.tabs) |->
        [tabId |-> getTabId(g.tabs[k]), isActive |-> (g.active = k - 1)]]

\* The callback of tabGroups.all.every: the saved groupTabs differ from group.
Differs(groupTabs, g) ==
    \/ Len(groupTabs) # Len(g.tabs)
    \/ \E k \in 1..Len(groupTabs) :
           \/ groupTabs[k].tabId # getTabId(g.tabs[k])
           \/ groupTabs[k].isActive # (g.active = k - 1)

\* groupTabsBeforeMerge.findIndex(... tabGroups.all.every(...))
targetGroupIndex(saved, gs) ==
    findIndex({j \in 1..Len(saved) : \A k \in 1..Len(gs) : Differs(saved[j], gs[k])})

\* groupTabsBeforeMerge[targetGroupIndex].find(({isActive}) => isActive)?.tabId
restoreTabIdOf(groupTabs) ==
    LET k == findIndex({j \in 1..Len(groupTabs) : groupTabs[j].isActive})
    IN  IF k < 0 THEN Null ELSE groupTabs[k + 1].tabId

\* activeGroupTabs.findIndex((tab) => tab.isActive)
currentTabIndex(g) == g.active

\* activeGroupTabs.findIndex((tab) => getTabId(tab) === restoreTabId)
targetTabIndex(g, id) == findIndex({j \in 1..Len(g.tabs) : getTabId(g.tabs[j]) = id})

nextCount(n, cur, tgt) == (tgt + n - cur) % n

previousCount(n, cur, tgt) == (cur + n - tgt) % n

\* Faulty variant: the shorter way round is taken for the longer one.
NavDirectionSwapped(next, previous) == IF next < previous THEN "previous" ELSE "next"

\* const direction = nextCount < previousCount ? "next" : "previous"
NavDirection(next, previous) == IF next < previous THEN "next" ELSE "previous"

\* Faulty variant: a single group is not enough to return early.
NoOtherGroupStrict(gs) == Len(gs) < 1

\* if (tabGroups.all.length <= 1)
NoOtherGroup(gs) == Len(gs) <= 1

\* workbench.action.nextEditorInGroup / previousEditorInGroup on group g: the
\* neighbour of the active tab becomes active, with wrap-around.
EditorInGroup(g, dir) ==
    IF g.active < 0 THEN g
    ELSE [g EXCEPT !.active = IF dir = "next" THEN (@ + 1) % Len(g.tabs)
                              ELSE (@ + Len(g.tabs) - 1) % Len(g.tabs)]

\* workbench.action.joinTwoGroups: the active group is merged into its next
\* group, or into its previous one when it is the last.  The tabs of the
\* source go behind the tabs of the target; a document the target shows
\* already is not opened twice (its tab stays where it is, or moves to the
\* place it would be put at, when moveShown); the active tab of the source
\* becomes the active tab of the merged group, which becomes the active group.
joinTwoGroups(gs, ag, moveShown) ==
    IF Len(gs) <= 1 THEN [groups |-> gs, activeGroup |-> ag]
    ELSE LET source == gs[ag]
             t == IF ag < Len(gs) THEN ag + 1 ELSE ag - 1
             target == gs[t]
             shown(tab) == \E k \in 1..Len(target.tabs) : target.tabs[k] = tab
             moved(tab) == \E k \in 1..Len(source.tabs) : source.tabs[k] = tab
             tabs == IF moveShown
                     THEN SelectSeq(target.tabs, LAMBDA tab : ~moved(tab)) \o source.tabs
                     ELSE target.tabs \o SelectSeq(source.tabs, LAMBDA tab : ~shown(tab))
             act == IF source.active >= 0 THEN activeTabs(source) ELSE activeTabs(target)
             merged == Group(tabs, findIndex({j \in 1..Len(tabs) : tabs[j] \in act}))
             rest == [k \in 1..(Len(gs) - 1) |->
                          LET j == IF k < ag THEN k ELSE k + 1
                          IN  IF j = t THEN merged ELSE gs[j]]
         IN  [groups |-> rest, activeGroup |-> IF t < ag THEN t ELSE t - 1]

(***************************************************************************)
(* Inputs.                                                                 *)
(***************************************************************************)
RECURSIVE SeqsUpTo(_, _)
SeqsUpTo(S, n) ==
    IF n = 0 THEN {<<>>}
    ELSE LET shorter == SeqsUpTo(S, n - 1)
         IN  shorter \cup {Append(s, x) : s \in {t \in shorter : Len(t) = n - 1}, x \in S}

Positions(doc) == {positionAt(doc, o) : o \in 0..Len(doc)}

\* Collapsed cursors.
Cursors(doc) == {Selection(p, p) : p \in Positions(doc)}

\* Cursors, and ranges whose anchor is the beginning of the document.
Ranges(doc) == Cursors(doc) \cup {Selection(positionAt(doc, 0), p) : p \in Positions(doc)}

\* The host when its command is at h: tab groups gs of which group ag is the
\* active one, text documents with the flags dirty, active document ad.
HostStart(h, gs, ag, id, dirty, ad) ==
    /\ hpc = h
    /\ groups = gs
    /\ activeGroup = ag
    /\ groupTabsBeforeMerge = <<>>
    /\ restoreTabId = id
    /\ direction = Null
    /\ count = 0
    /\ issued = 0
    /\ executed = <<>>
    /\ atCall = [groups |-> gs, activeGroup |-> ag, activeDocument |-> ad,
                 isDirty |-> dirty]
    /\ isDirty = dirty
    /\ activeDocument = ad
    /\ activeEditor = Null
    /\ dirtyDocs = <<>>
    /\ d = 1

Start(doc, sels, o) ==
    /\ document = doc
    /\ selections = sels
    /\ op = o
    /\ newSelections = <<>>
    /\ i = 1
    /\ pc = "loop"
    /\ pos = 0
    /\ closingOffset = -1
    /\ mpos = 0
    /\ depth = 0
    /\ openChar = Null
    /\ closeChar = Null
    /\ reads = <<>>
    /\ skips = <<>>
    /\ found = <<>>
    /\ HostStart("none", <<>>, 0, Null, <<>>, Null)

\* No scan is in progress.
ScanIdle ==
    /\ document = <<>>
    /\ selections = <<>>
    /\ op = Null
    /\ newSelections = <<>>
    /\ i = 1
    /\ pc = "idle"
    /\ pos = 0
    /\ closingOffset = -1
    /\ mpos = 0
    /\ depth = 0
    /\ openChar = Null
    /\ closeChar = Null
    /\ reads = <<>>
    /\ skips = <<>>
    /\ found = <<>>

\* Lists of one to MaxTabs different tabs.
TabLists ==
    {t \in SeqsUpTo(Tabs, MaxTabs) :
         Len(t) >= 1 /\ \A j, k \in 1..Len(t) : t[j] = t[k] => j = k}

\* Tab groups: the empty group, and the groups of a tab list with one of the
\* tabs active.
TabGroups ==
    {Group(<<>>, -1)} \cup
    UNION {{Group(t, a) : a \in 0..(Len(t) - 1)} : t \in TabLists}

\* A terminal is shown in one group only; a text document can be shown in both.
Apart(g1, g2) ==
    \A j \in 1..Len(g1.tabs) : \A k \in 1..Len(g2.tabs) :
        g1.tabs[j] = g2.tabs[k] => g1.tabs[j].input = "text"

\* joinTwoGroupsInBackground is invoked with one or two tab groups.
InitJoin ==
    /\ ScanIdle
    /\ \E gs \in {<<g>> : g \in TabGroups} \cup
                 {<<pr[1], pr[2]>> : pr \in {q \in TabGroups \X TabGroups : Apart(q[1], q[2])}} :
           \E ag \in 1..Len(gs) : HostStart("call", gs, ag, Null, <<>>, Null)

\* The restore navigation of joinTwoGroupsInBackground is entered with a group
\* of n tabs of which tab cur is active, and the id of tab tgt to restore.
InitNav ==
    /\ ScanIdle
    /\ \E n \in 1..MaxNavTabs : \E cur, tgt \in 0..(n - 1) :
           LET tabs == [k \in 1..n |-> TextTab(UriNames[k])]
           IN  HostStart("plan", <<Group(tabs, cur)>>, 1, getTabId(tabs[tgt + 1]),
                         <<>>, Null)

\* saveAllWithoutFormatting is invoked with up to MaxDocs text documents, any
\* of them dirty, and one of them or none in the active text editor.
InitSave ==
    /\ ScanIdle
    /\ \E n \in 0..MaxDocs :
           LET docs == {UriNames[k] : k \in 1..n}
           IN  \E dirty \in [docs -> BOOLEAN] : \E ad \in docs \cup {Null} :
                   HostStart("call", <<>>, 0, Null, dirty, ad)

\* One cursor in a document of brackets, quotes, escapes and lines.
Init ==
    \E doc \in SeqsUpTo(Alphabet, MaxLen) :
        \E s \in Cursors(doc) :
            \E o \in {"exit", "enter"} : Start(doc, <<s>>, o)

\* One cursor in a document of brackets of two types.
InitNest ==
    \E doc \in SeqsUpTo(AlphabetNest, MaxLenNest) :
        \E s \in Cursors(doc) :
            \E o \in {"exit", "enter"} : Start(doc, <<s>>, o)

\* A list of selections in a short document.
InitMulti ==
    \E doc \in SeqsUpTo(AlphabetMulti, MaxLenMulti) :
        \E sels \in SeqsUpTo(Ranges(doc), MaxSel) :
            \E o \in {"exit", "enter"} : Start(doc, sels, o)

\* One cursor in a document of brackets and escapes.
InitLive ==
    \E doc \in SeqsUpTo(AlphabetLive, MaxLenLive) :
        \E s \in Cursors(doc) :
            \E o \in {"exit", "enter"} : Start(doc, <<s>>, o)

\* Selections with any anchor and any active end, reversed ones included.
AnySelections(doc) == {Selection(a, b) : a \in Positions(doc), b \in Positions(doc)}

\* Two selections of any shape in a short document.
InitAnchor ==
    \E doc \in SeqsUpTo(AlphabetMulti, MaxLenAnchor) :
        \E s1 \in AnySelections(doc) : \E s2 \in AnySelections(doc) :
            \E o \in {"exit", "enter"} : Start(doc, <<s1, s2>>, o)

\* One cursor in a short document of brackets, quotes, escapes and lines, for
\* calls that are repeated on their own output.
InitRepeat ==
    \E doc \in SeqsUpTo(Alphabet, MaxLenRepeat) :
        \E s \in Cursors(doc) :
            \E o \in {"exit", "enter"} : Start(doc, <<s>>, o)

\* computeExitSelections with one cursor in a document of brackets of two
\* types, quotes and escapes.
InitDepth ==
    \E doc \in SeqsUpTo(AlphabetDepth, MaxLenDepth) :
        \E s \in Cursors(doc) : Start(doc, <<s>>, "exit")

(***************************************************************************)
(* The call as a state machine.                                            *)
(***************************************************************************)
\* The locals of the scan in progress.
Cur ==
    [pc |-> pc, pos |-> pos, closingOffset |-> closingOffset, mpos |-> mpos,
     depth |-> depth, openChar |-> openChar, closeChar |-> closeChar,
     reads |-> reads, skips |-> skips]

SetCur(s) ==
    /\ pc' = s.pc
    /\ pos' = s.pos
    /\ closingOffset' = s.closingOffset
    /\ mpos' = s.mpos
    /\ depth' = s.depth
    /\ openChar' = s.openChar
    /\ closeChar' = s.closeChar
    /\ reads' = s.reads
    /\ skips' = s.skips

\* Faulty variant: the scan position is kept from one selection to the next.
BeginFromLast ==
    /\ pc = "loop"
    /\ i <= Len(selections)
    /\ SetCur(ScanInit(op, IF i > 1 THEN pos
                           ELSE offsetAt(document, selections[i].active)))
    /\ UNCHANGED <<document, selections, op, newSelections, i, found>>
    /\ UNCHANGED hostVars

\* Faulty variant: the scan starts from the anchor of the selection.
BeginAtAnchor ==
    /\ pc = "loop"
    /\ i <= Len(selections)
    /\ SetCur(ScanInit(op, offsetAt(document, selections[i].anchor)))
    /\ UNCHANGED <<document, selections, op, newSelections, i, found>>
    /\ UNCHANGED hostVars

\* for (const selection of selections): the scan of the next selection begins.
Begin ==
    /\ pc = "loop"
    /\ i <= Len(selections)
    /\ SetCur(ScanInit(op, offsetAt(document, selections[i].active)))
    /\ UNCHANGED <<document, selections, op, newSelections, i, found>>
    /\ UNCHANGED hostVars

FwdStep ==
    /\ pc = "fwd"
    /\ SetCur(FwdNext(document, Cur))
    /\ UNCHANGED <<document, selections, op, newSelections, i, found>>
    /\ UNCHANGED hostVars

MCloseStep ==
    /\ pc = "mclose"
    /\ SetCur(MCloseNext(document, Cur))
    /\ UNCHANGED <<document, selections, op, newSelections, i, found>>
    /\ UNCHANGED hostVars

BwdStep ==
    /\ pc = "bwd"
    /\ SetCur(BwdNext(document, Cur))
    /\ UNCHANGED <<document, selections, op, newSelections, i, found>>
    /\ UNCHANGED hostVars

MOpenStep ==
    /\ pc = "mopen"
    /\ SetCur(MOpenNext(document, Cur))
    /\ UNCHANGED <<document, selections, op, newSelections, i, found>>
    /\ UNCHANGED hostVars

\* Faulty variant: nothing is pushed for a selection without a match.
EmitDropsNotFound ==
    /\ pc = "emit"
    /\ newSelections' =
           IF closingOffset < 0 THEN newSelections
           ELSE Append(newSelections,
                       NewSelection(document, op, selections[i], closingOffset))
    /\ found' = Append(found, closingOffset)
    /\ i' = i + 1
    /\ pc' = "loop"
    /\ UNCHANGED <<document, selections, op, pos, closingOffset, mpos, depth,
                   openChar, closeChar, reads, skips>>
    /\ UNCHANGED hostVars

\* The scan returned: the new selection is pushed.
Emit ==
    /\ pc = "emit"
    /\ newSelections' =
           Append(newSelections, NewSelection(document, op, selections[i], closingOffset))
    /\ found' = Append(found, closingOffset)
    /\ i' = i + 1
    /\ pc' = "loop"
    /\ UNCHANGED <<document, selections, op, pos, closingOffset, mpos, depth,
                   openChar, closeChar, reads, skips>>
    /\ UNCHANGED hostVars

\* return newSelections
Return ==
    /\ pc = "loop"
    /\ i > Len(selections)
    /\ pc' = "done"
    /\ UNCHANGED <<document, selections, op, newSelections, i, pos, closingOffset,
                   mpos, depth, openChar, closeChar, reads, skips, found>>
    /\ UNCHANGED hostVars

Next ==
    \/ Begin
    \/ FwdStep
    \/ MCloseStep
    \/ BwdStep
    \/ MOpenStep
    \/ Emit
    \/ Return

Spec == Init /\ [][Next]_vars

SpecNest == InitNest /\ [][Next]_vars

SpecMulti == InitMulti /\ [][Next]_vars

\* The caller passes the returned selections to the same operation again, as
\* long as the call changed them.
Again ==
    /\ pc = "done"
    /\ newSelections # selections
    /\ selections' = newSelections
    /\ newSelections' = <<>>
    /\ i' = 1
    /\ pc' = "loop"
    /\ UNCHANGED <<document, op, pos, closingOffset, mpos, depth, openChar,
                   closeChar, reads, skips, found>>
    /\ UNCHANGED hostVars

NextRepeat ==
    \/ Begin
    \/ FwdStep
    \/ MCloseStep
    \/ BwdStep
    \/ MOpenStep
    \/ Emit
    \/ Return
    \/ Again

SpecRepeat == InitRepeat /\ [][NextRepeat]_vars

SpecAnchor == InitAnchor /\ [][Next]_vars

\* The steps of computeExitSelections.
NextExit ==
    \/ Begin
    \/ FwdStep
    \/ MCloseStep
    \/ Emit
    \/ Return

SpecDepth == InitDepth /\ [][NextExit]_vars

\* The call runs to its return without being suspended: the functions are
\* synchronous and nothing else runs in between.
SpecLive == InitLive /\ [][Next]_vars /\ WF_vars(Next)

(***************************************************************************)
(* joinTwoGroupsInBackground as a state machine, one step per awaited call.*)
(***************************************************************************)
\* The entry check and the snapshot of the groups that are not active.
JoinBegin ==
    /\ hpc = "call"
    /\ IF NoOtherGroup(groups)
       THEN /\ executed' = Append(executed, <<"showInformationMessage",
                                             "No other editor group to merge with">>)
            /\ hpc' = "done"
            /\ UNCHANGED groupTabsBeforeMerge
       ELSE /\ groupTabsBeforeMerge' =
                   LET others == NonActiveGroups(groups, activeGroup)
                   IN  [k \in 1..Len(others) |-> TabsSnapshot(others[k])]
            /\ hpc' = "join"
            /\ UNCHANGED executed
    /\ UNCHANGED <<groups, activeGroup, restoreTabId, direction, count, issued,
                   atCall, isDirty, activeDocument, activeEditor, dirtyDocs, d>>
    /\ UNCHANGED scanVars

\* await executeCommand("workbench.action.joinTwoGroups")
JoinCommand ==
    /\ hpc = "join"
    /\ \E moveShown \in BOOLEAN :
           LET joined == joinTwoGroups(groups, activeGroup, moveShown)
           IN  /\ groups' = joined.groups
               /\ activeGroup' = joined.activeGroup
    /\ executed' = Append(executed, <<"executeCommand", "workbench.action.joinTwoGroups">>)
    /\ hpc' = "find"
    /\ UNCHANGED <<groupTabsBeforeMerge, restoreTabId, direction, count, issued,
                   atCall, isDirty, activeDocument, activeEditor, dirtyDocs, d>>
    /\ UNCHANGED scanVars

\* The group that received the tabs and the id of the tab that was active in it.
JoinFindTarget ==
    /\ hpc = "find"
    /\ LET idx == targetGroupIndex(groupTabsBeforeMerge, groups)
       IN  IF idx = -1
           THEN /\ hpc' = "done"
                /\ UNCHANGED restoreTabId
           ELSE LET id == restoreTabIdOf(groupTabsBeforeMerge[idx + 1])
                IN  /\ restoreTabId' = id
                    /\ hpc' = IF id = Null THEN "done" ELSE "plan"
    /\ UNCHANGED <<groups, activeGroup, groupTabsBeforeMerge, direction, count,
                   issued, executed, atCall, isDirty, activeDocument, activeEditor,
                   dirtyDocs, d>>
    /\ UNCHANGED scanVars

\* The way from the active tab to the tab to restore: direction and count.
JoinPlan ==
    /\ hpc = "plan"
    /\ LET activeGroupTabs == groups[activeGroup]
           n == Len(activeGroupTabs.tabs)
           cur == currentTabIndex(activeGroupTabs)
           tgt == targetTabIndex(activeGroupTabs, restoreTabId)
       IN  /\ direction' = NavDirection(nextCount(n, cur, tgt), previousCount(n, cur, tgt))
           /\ count' = Min(nextCount(n, cur, tgt), previousCount(n, cur, tgt))
    /\ issued' = 0
    /\ hpc' = "navigate"
    /\ UNCHANGED <<groups, activeGroup, groupTabsBeforeMerge, restoreTabId, executed,
                   atCall, isDirty, activeDocument, activeEditor, dirtyDocs, d>>
    /\ UNCHANGED scanVars

\* One of the count commands workbench.action.${direction}EditorInGroup.
JoinNavigate ==
    /\ hpc = "navigate"
    /\ issued < count
    /\ groups' = [groups EXCEPT ![activeGroup] = EditorInGroup(@, direction)]
    /\ executed' = Append(executed, <<"executeCommand",
                                      "workbench.action." \o direction \o "EditorInGroup">>)
    /\ issued' = issued + 1
    /\ UNCHANGED <<hpc, activeGroup, groupTabsBeforeMerge, restoreTabId, direction,
                   count, atCall, isDirty, activeDocument, activeEditor, dirtyDocs, d>>
    /\ UNCHANGED scanVars

\* All the navigation commands have run: the command returns.
JoinReturn ==
    /\ hpc = "navigate"
    /\ issued = count
    /\ hpc' = "done"
    /\ UNCHANGED <<groups, activeGroup, groupTabsBeforeMerge, restoreTabId, direction,
                   count, issued, executed, atCall, isDirty, activeDocument,
                   activeEditor, dirtyDocs, d>>
    /\ UNCHANGED scanVars

NextJoin ==
    \/ JoinBegin
    \/ JoinCommand
    \/ JoinFindTarget
    \/ JoinPlan
    \/ JoinNavigate
    \/ JoinReturn

SpecJoin == InitJoin /\ [][NextJoin]_vars

NextNav ==
    \/ JoinPlan
    \/ JoinNavigate
    \/ JoinReturn

SpecNav == InitNav /\ [][NextNav]_vars

(***************************************************************************)
(* saveAllWithoutFormatting as a state machine, one step per awaited call. *)
(***************************************************************************)
\* vscode.workspace.textDocuments, in their order.
textDocuments == SelectSeq(UriNames, LAMBDA u : u \in DOMAIN isDirty)

\* const activeEditor = ...; const dirtyDocs = textDocuments.filter(isDirty)
SaveBegin ==
    /\ hpc = "call"
    /\ activeEditor' = activeDocument
    /\ dirtyDocs' = SelectSeq(textDocuments, LAMBDA doc : isDirty[doc])
    /\ d' = 1
    /\ hpc' = IF dirtyDocs' = <<>> THEN "restore" ELSE "show"
    /\ UNCHANGED <<groups, activeGroup, groupTabsBeforeMerge, restoreTabId, direction,
                   count, issued, executed, atCall, isDirty, activeDocument>>
    /\ UNCHANGED scanVars

\* await showTextDocument(doc, {preserveFocus: false})
SaveShow ==
    /\ hpc = "show"
    /\ activeDocument' = dirtyDocs[d]
    /\ executed' = Append(executed, <<"showTextDocument", dirtyDocs[d]>>)
    /\ hpc' = "save"
    /\ UNCHANGED <<groups, activeGroup, groupTabsBeforeMerge, restoreTabId, direction,
                   count, issued, atCall, isDirty, activeEditor, dirtyDocs, d>>
    /\ UNCHANGED scanVars

\* await executeCommand("workbench.action.files.saveWithoutFormatting"): the
\* host saves the document of the active editor, or fails to.
SaveCommand ==
    /\ hpc = "save"
    /\ \E saved \in BOOLEAN :
           isDirty' = IF saved THEN [isDirty EXCEPT ![activeDocument] = FALSE]
                      ELSE isDirty
    /\ executed' = Append(executed, <<"workbench.action.files.saveWithoutFormatting",
                                      activeDocument>>)
    /\ d' = d + 1
    /\ hpc' = IF d + 1 > Len(dirtyDocs) THEN "restore" ELSE "show"
    /\ UNCHANGED <<groups, activeGroup, groupTabsBeforeMerge, restoreTabId, direction,
                   count, issued, atCall, activeDocument, activeEditor, dirtyDocs>>
    /\ UNCHANGED scanVars

\* Faulty variant: the editor that was active is not shown again.
SaveRestoreNothing ==
    /\ hpc = "restore"
    /\ hpc' = "done"
    /\ UNCHANGED <<groups, activeGroup, groupTabsBeforeMerge, restoreTabId, direction,
                   count, issued, executed, atCall, isDirty, activeDocument,
                   activeEditor, dirtyDocs, d>>
    /\ UNCHANGED scanVars

\* if (activeEditor) await showTextDocument(activeEditor.document)
SaveRestore ==
    /\ hpc = "restore"
    /\ IF activeEditor # Null
       THEN /\ activeDocument' = activeEditor
            /\ executed' = Append(executed, <<"showTextDocument", activeEditor>>)
       ELSE UNCHANGED <<activeDocument, executed>>
    /\ hpc' = "done"
    /\ UNCHANGED <<groups, activeGroup, groupTabsBeforeMerge, restoreTabId, direction,
                   count, issued, atCall, isDirty, activeEditor, dirtyDocs, d>>
    /\ UNCHANGED scanVars

NextSave ==
    \/ SaveBegin
    \/ SaveShow
    \/ SaveCommand
    \/ SaveRestore

SpecSave == InitSave /\ [][NextSave]_vars

(***************************************************************************)
(* Reference notions the properties are stated with.  They are defined on  *)
(* the document alone, not through the scans.                              *)
(***************************************************************************)
Range(f) == {f[k] : k \in DOMAIN f}

\* Offset of the active end of input selection j.
CursorOffset(j) == offsetAt(document, selections[j].active)

BracketOpeners == {"(", "[", "{"}

BracketClosers == {")", "]", "}"}

ClosingDelimiters == BracketClosers \cup {"\"", "'", Backtick}

PartnerOf(c) == CASE c = ")" -> "(" [] c = "]" -> "[" [] c = "}" -> "{"

\* Bracket matching with a stack of opener indices: whether the document is
\* well nested, and its pairs <<opener offset, closer offset>>.
RECURSIVE Nest(_, _, _, _)
Nest(doc, k, stack, pairs) ==
    IF k > Len(doc) THEN [ok |-> stack = <<>>, pairs |-> pairs]
    ELSE IF doc[k] \in BracketOpeners
    THEN Nest(doc, k + 1, <<k>> \o stack, pairs)
    ELSE IF doc[k] \in BracketClosers
    THEN IF stack # <<>> /\ doc[Head(stack)] = PartnerOf(doc[k])
         THEN Nest(doc, k + 1, Tail(stack), pairs \cup {<<Head(stack) - 1, k - 1>>})
         ELSE [ok |-> FALSE, pairs |-> pairs]
    ELSE Nest(doc, k + 1, stack, pairs)

WellNested(doc) == Nest(doc, 1, <<>>, {}).ok

Pairs(doc) == Nest(doc, 1, <<>>, {}).pairs

\* The pairs a cursor at offset p lies strictly inside.
Enclosing(doc, p) == {pr \in Pairs(doc) : pr[1] < p /\ p <= pr[2]}

Innermost(doc, p) ==
    CHOOSE pr \in Enclosing(doc, p) : \A q \in Enclosing(doc, p) : q[1] <= pr[1]

\* The outermost pairs that open at or after offset p and close before offset c.
PairsBetween(doc, p, c) ==
    LET in == {pr \in Pairs(doc) : p <= pr[1] /\ pr[2] < c}
    IN  {pr \in in : ~ \E q \in in : q[1] < pr[1] /\ pr[2] < q[2]}

\* Number of consecutive backslashes that end just before offset k.
RECURSIVE BackslashRun(_, _)
BackslashRun(doc, k) ==
    IF k = 0 \/ doc[k] # "\\" THEN 0 ELSE 1 + BackslashRun(doc, k - 1)

\* The character at offset k is preceded by a backslash that is not itself escaped.
Escaped(doc, k) == BackslashRun(doc, k) % 2 = 1

(***************************************************************************)
(* C1: in a well-nested document of brackets, an exit from a cursor that   *)
(* lies strictly inside a bracket pair finds the closer of the innermost   *)
(* enclosing pair and lands one past it; the pairs that open and close     *)
(* between the cursor and that closer are the ones the scan jumps over.    *)
(* Checked under SpecNest.                                                 *)
(***************************************************************************)
ExitLeavesInnermostPair ==
    (/\ pc = "done"
     /\ op = "exit"
     /\ WellNested(document)
     /\ Enclosing(document, CursorOffset(1)) # {})
    => LET c == Innermost(document, CursorOffset(1))[2]
       IN  /\ found[1] = c
           /\ offsetAt(document, newSelections[1].active) = c + 1
           /\ Range(skips) = PairsBetween(document, CursorOffset(1), c)

\* An exit from inside a pair that jumped over a nested pair.
ExitLeavesInnermostPairWitness ==
    /\ pc = "done"
    /\ op = "exit"
    /\ WellNested(document)
    /\ Enclosing(document, CursorOffset(1)) # {}
    /\ skips # <<>>
    /\ found[1] = Innermost(document, CursorOffset(1))[2]

(***************************************************************************)
(* C2: the delimiter a scan selects is never an escaped one, and neither   *)
(* is the opener or the closer of a pair a scan jumps over.                *)
(* Checked under Spec.                                                     *)
(***************************************************************************)
NeverEscapedDelimiter ==
    pc = "emit"
    => /\ closingOffset >= 0 => ~Escaped(document, closingOffset)
       /\ \A k \in DOMAIN skips :
              ~Escaped(document, skips[k][1]) /\ ~Escaped(document, skips[k][2])

(***************************************************************************)
(* C3: when the forward scan finds a closing delimiter at offset c, the    *)
(* output is a collapsed cursor whose position (line of c, column of c     *)
(* plus one) is the document's position of offset c + 1.                   *)
(* Checked under Spec.                                                     *)
(***************************************************************************)
ExitLandsOnePastCloser ==
    (pc = "done" /\ op = "exit" /\ found[1] >= 0)
    => /\ newSelections[1].active = positionAt(document, found[1] + 1)
       /\ newSelections[1].anchor = newSelections[1].active
       /\ offsetAt(document, newSelections[1].active) = found[1] + 1

\* The closer is on a later line than the cursor and is the last character of
\* its line.
ExitLandsOnePastCloserWitness ==
    /\ pc = "done"
    /\ op = "exit"
    /\ found[1] >= 0
    /\ positionAt(document, found[1]).line > selections[1].active.line
    /\ found[1] + 2 <= Len(document)
    /\ document[found[1] + 2] = "\n"
    /\ newSelections[1].active = positionAt(document, found[1] + 1)

(***************************************************************************)
(* C4: not found is the only outcome besides a found offset, and it leaves *)
(* the input selection as it is, anchor and active end alike, in both      *)
(* operations.  Checked under SpecMulti.                                   *)
(***************************************************************************)
NotFoundKeepsSelection ==
    /\ \A j \in DOMAIN found :
           found[j] = -1 \/ found[j] \in 0..(Len(document) - 1)
    /\ \A j \in DOMAIN newSelections :
           found[j] < 0 => newSelections[j] = selections[j]

\* A range whose scan reached the start of the document without a match.
NotFoundKeepsSelectionWitness ==
    /\ pc = "done"
    /\ op = "enter"
    /\ \E j \in DOMAIN found :
           /\ found[j] = -1
           /\ selections[j].anchor # selections[j].active
           /\ CursorOffset(j) > 0
           /\ newSelections[j] = selections[j]

(***************************************************************************)
(* C5: the output list has as many entries as the input list, and entry j  *)
(* is the result of input selection j.  Checked under SpecMulti.           *)
(***************************************************************************)
OneOutputPerInput ==
    /\ i \in 1..(Len(selections) + 1)
    /\ Len(newSelections) = i - 1
    /\ Len(found) = Len(newSelections)
    /\ pc = "done" => Len(newSelections) = Len(selections)
    /\ \A j \in DOMAIN newSelections :
           /\ newSelections[j] = NewSelection(document, op, selections[j], found[j])
           /\ found[j] >= 0 =>
                  IF op = "exit" THEN found[j] >= CursorOffset(j)
                  ELSE found[j] < CursorOffset(j)

\* Two selections, the first without a match and the second with one.
OneOutputPerInputWitness ==
    /\ pc = "done"
    /\ Len(selections) = 2
    /\ Len(newSelections) = 2
    /\ found[1] = -1
    /\ found[2] >= 0
    /\ newSelections[1] = selections[1]
    /\ newSelections[2] # selections[2]

(***************************************************************************)
(* C6: the backward scan jumps over every complete pair it meets before    *)
(* its target: it does not stop at or inside a pair that lies before the   *)
(* cursor, and a pair it went past was skipped as a unit.                  *)
(* Checked under SpecNest.                                                 *)
(***************************************************************************)
EnterSkipsNestedPairs ==
    (pc = "emit" /\ op = "enter" /\ WellNested(document))
    => \A pr \in Pairs(document) :
           pr[2] < CursorOffset(i)
           => /\ ~(pr[1] <= closingOffset /\ closingOffset <= pr[2])
              /\ closingOffset < pr[1]
                     => \E k \in DOMAIN skips :
                            skips[k][1] <= pr[1] /\ pr[2] <= skips[k][2]

(***************************************************************************)
(* C7: when the exit finds the (unescaped) closing delimiter at offset c,  *)
(* the enter from offset c + 1 returns c.  Checked under Spec.             *)
(***************************************************************************)
EnterUndoesExit ==
    (/\ pc = "emit"
     /\ op = "exit"
     /\ closingOffset >= 0
     /\ ~Escaped(document, closingOffset))
    => findPreviousClosingPosition(document, closingOffset + 1) = closingOffset

(***************************************************************************)
(* C8: when the backward scan finds a delimiter at offset c, the output is *)
(* a collapsed cursor at offset c, c is smaller than the offset of the     *)
(* input cursor, and the character at c is a closing bracket or a quote.   *)
(* Checked under Spec.                                                     *)
(***************************************************************************)
EnterLandsBeforeCloser ==
    (pc = "done" /\ op = "enter" /\ found[1] >= 0)
    => /\ newSelections[1].anchor = newSelections[1].active
       /\ newSelections[1].active = positionAt(document, found[1])
       /\ offsetAt(document, newSelections[1].active) = found[1]
       /\ found[1] < CursorOffset(1)
       /\ document[found[1] + 1] \in ClosingDelimiters

\* The delimiter found is on an earlier line than the cursor and not the
\* character right before it.
EnterLandsBeforeCloserWitness ==
    /\ pc = "done"
    /\ op = "enter"
    /\ found[1] >= 0
    /\ found[1] < CursorOffset(1) - 1
    /\ positionAt(document, found[1]).line < selections[1].active.line
    /\ offsetAt(document, newSelections[1].active) = found[1]

(***************************************************************************)
(* C9: the output for a selection is what a call with that selection alone *)
(* returns, whatever the other selections of the list are, and equal       *)
(* selections of a list get equal outputs.  Checked under SpecMulti.       *)
(***************************************************************************)
AloneResult(j) ==
    NewSelection(document, op, selections[j],
                 ScanRun(document, ScanInit(op, CursorOffset(j))).closingOffset)

OutputOfOwnCursorOnly ==
    pc = "done"
    => /\ \A j \in DOMAIN selections : newSelections[j] = AloneResult(j)
       /\ \A j, k \in DOMAIN selections :
              selections[j] = selections[k] => newSelections[j] = newSelections[k]

\* Two different cursors, each with a match of its own.
OutputOfOwnCursorOnlyWitness ==
    /\ pc = "done"
    /\ Len(selections) = 2
    /\ selections[1] # selections[2]
    /\ found[1] >= 0
    /\ found[2] >= 0
    /\ found[1] # found[2]
    /\ CursorOffset(1) > CursorOffset(2)
    /\ newSelections[2] = AloneResult(2)

(***************************************************************************)
(* C10: every character a scan reads is at an offset of the document, in   *)
(* the outer scans, in the nested-pair sub-scans (also when called on      *)
(* their own at any delimiter), in the escape look-behind and after the    *)
(* two-position escape jumps; an exit from the end of the document and an  *)
(* enter from its start read nothing and report not found.                 *)
(* Checked under Spec.                                                     *)
(***************************************************************************)
ReadsInDocument(r, doc) == \A k \in DOMAIN r : r[k] \in 0..(Len(doc) - 1)

ScansStayInDocument ==
    /\ ReadsInDocument(reads, document)
    /\ (pc = "emit" /\ op = "exit" /\ CursorOffset(i) = Len(document))
           => (closingOffset = -1 /\ reads = <<>>)
    /\ (pc = "emit" /\ op = "enter" /\ CursorOffset(i) = 0)
           => (closingOffset = -1 /\ reads = <<>>)
    /\ pc = "loop"
           => \A q \in 0..(Len(document) - 1) :
                  /\ isClosingChar(document[q + 1]) =>
                         ReadsInDocument(
                             findMatchingOpen(document, q, document[q + 1]).reads,
                             document)
                  /\ isOpeningChar(document[q + 1]) =>
                         ReadsInDocument(
                             findMatchingClose(document, q, document[q + 1]).reads,
                             document)

\* A backward scan that an escape jump of two positions took from offset 1 to
\* before the start of the document.
ScansStayInDocumentWitness ==
    /\ pc = "emit"
    /\ op = "enter"
    /\ closingOffset = -1
    /\ pos = -1
    /\ Len(reads) >= 2
    /\ reads[Len(reads)] = 0
    /\ reads[Len(reads) - 1] = 1
    /\ document[1] = "\\"

(***************************************************************************)
(* C11: inclusive start.  The first character the exit scan examines is    *)
(* the one at the cursor offset p, and the first one the enter scan        *)
(* examines is the one at p - 1.  A closing delimiter at p makes the exit  *)
(* return p + 1; a closing delimiter at p - 1 that is not preceded by a    *)
(* backslash makes the enter return p - 1; the character at p is never     *)
(* the result of an enter from p.                                          *)
(***************************************************************************)
InclusiveStart ==
    LET p == CursorOffset(1)
    IN  /\ (pc \in {"fwd", "mclose", "bwd", "mopen", "emit"} /\ reads # <<>>) =>
               reads[1] = IF op = "exit" THEN p ELSE p - 1
        /\ (pc = "done" /\ op = "exit" /\ p < Len(document)
                /\ document[p + 1] \in ClosingDelimiters) =>
               /\ found[1] = p
               /\ offsetAt(document, newSelections[1].active) = p + 1
        /\ (pc = "done" /\ op = "enter" /\ p >= 1
                /\ document[p] \in ClosingDelimiters
                /\ (p >= 2 => document[p - 1] # "\\")) =>
               /\ found[1] = p - 1
               /\ offsetAt(document, newSelections[1].active) = p - 1
        /\ (pc = "done" /\ op = "enter") => found[1] # p

\* An enter with closing delimiters on both sides of the cursor took the one
\* before it.
InclusiveStartWitness ==
    LET p == CursorOffset(1)
    IN  /\ pc = "done" /\ op = "enter"
        /\ p >= 1 /\ p < Len(document)
        /\ document[p] \in ClosingDelimiters
        /\ document[p + 1] \in ClosingDelimiters
        /\ found[1] = p - 1
        /\ reads[1] = p - 1

(***************************************************************************)
(* C12: both operations always terminate.  The forward position strictly   *)
(* increases and the backward position strictly decreases on every loop    *)
(* iteration of the outer scans and of the sub-scans, also after a         *)
(* nested-pair jump and after an escape jump.                              *)
(***************************************************************************)
\* What one loop iteration does to the position of the loop it belongs to.
ScanAdvances ==
    /\ (pc = "fwd" /\ pc' = "fwd") => pos' > pos
    /\ (pc = "fwd" /\ pc' = "mclose") => (pos' = pos /\ mpos' > pos)
    /\ (pc = "mclose" /\ pc' = "mclose") => (pos' = pos /\ mpos' > mpos)
    /\ (pc = "mclose" /\ pc' = "fwd") => pos' > pos
    /\ (pc = "bwd" /\ pc' = "bwd") => pos' < pos
    /\ (pc = "bwd" /\ pc' = "mopen") => (pos' = pos /\ mpos' < pos)
    /\ (pc = "mopen" /\ pc' = "mopen") => (pos' = pos /\ mpos' < mpos)
    /\ (pc = "mopen" /\ pc' = "bwd") => pos' < pos

ScansTerminate == [][ScanAdvances]_vars /\ <>(pc = "done")

\* An exit that returned after an escape jump inside a sub-scan, the return of
\* that sub-scan without a match, and an escape jump of the outer scan.
ScansTerminateWitness ==
    /\ pc = "done" /\ op = "exit"
    /\ skips = <<>>
    /\ \E j, k \in DOMAIN reads :
           /\ j < k
           /\ reads[j] = reads[k]
           /\ document[reads[k] + 1] = "\\"
           /\ reads[k] + 1 < Len(document)

(***************************************************************************)
(* C16: in the forward scan a quote can act as the opener of a nested      *)
(* pair: a complete quoted string ahead of the cursor is skipped as a unit *)
(* through findMatchingClose, so the exit does not stop at its first       *)
(* quote.  Stated for a cursor that is not right after a backslash, with   *)
(* only plain characters between the cursor and the opening quote q, and   *)
(* no quote or backslash between q and the closing quote q2.               *)
(***************************************************************************)
QuotedStringSkipped ==
    LET p == CursorOffset(1)
    IN  (pc = "done" /\ op = "exit" /\ (p = 0 \/ document[p] # "\\")) =>
            \A q \in p..(Len(document) - 1) : \A q2 \in (q + 1)..(Len(document) - 1) :
                ( /\ document[q + 1] = "\"" /\ document[q2 + 1] = "\""
                  /\ \A k \in p..(q - 1) : document[k + 1] \in {"a", "\n"}
                  /\ \A k \in (q + 1)..(q2 - 1) : document[k + 1] \notin {"\"", "\\"} )
                => /\ found[1] # q
                   /\ <<q, q2>> \in Range(skips)

(***************************************************************************)
(* C17: an unterminated opening bracket does not block the forward scan.   *)
(* When findMatchingClose returns not found for the opener at q, the scan  *)
(* goes on at q + 1, and a later closing delimiter of any type is still    *)
(* found: the exit returns the first closing delimiter at or after the     *)
(* cursor that is not inside a pair the scan jumped over, and not found    *)
(* only when there is none.                                                *)
(***************************************************************************)
\* Offsets inside the pairs the scan jumped over, delimiters included.
Jumped == {k \in 0..(Len(document) - 1) :
               \E j \in DOMAIN skips : skips[j][1] <= k /\ k <= skips[j][2]}

\* Closing delimiters at or after the cursor the scan did not jump over.
OpenClosers ==
    {c \in CursorOffset(1)..(Len(document) - 1) :
         document[c + 1] \in ClosingDelimiters /\ c \notin Jumped}

UnmatchedOpenerResumes ==
    (pc = "mclose" /\ pc' = "fwd" /\ skips' = skips) => pos' = pos + 1

UnterminatedOpenerDoesNotBlock ==
    /\ [][UnmatchedOpenerResumes]_vars
    /\ []((pc = "done" /\ op = "exit") =>
              IF OpenClosers = {} THEN found[1] = -1
              ELSE found[1] \in OpenClosers
                   /\ \A c \in OpenClosers : found[1] <= c)

\* An exit that read an unterminated opener and still found a closing
\* delimiter of another type after it.
UnterminatedOpenerDoesNotBlockWitness ==
    /\ pc = "done" /\ op = "exit"
    /\ skips = <<>>
    /\ found[1] >= 0
    /\ \E q \in CursorOffset(1)..(found[1] - 1) :
           /\ document[q + 1] \in BracketOpeners
           /\ document[found[1] + 1] # getClosingChar(document[q + 1])

(***************************************************************************)
(* C18: findMatchingClose for a bracket at p starts with depth 1 and       *)
(* returns the smallest q > p at which the depth reaches 0.  Only          *)
(* non-escaped characters of the same bracket type are counted: an opener  *)
(* adds 1, a closer takes 1; every other character, brackets of other      *)
(* types and quotes included, leaves the depth unchanged.  The depth is at *)
(* least 1 before q, and the result is not found when the depth never      *)
(* reaches 0.                                                              *)
(***************************************************************************)
\* Non-escaped occurrences of character c at the offsets a..b.
Unescaped(doc, c, a, b) == {k \in a..b : doc[k + 1] = c /\ ~Escaped(doc, k)}

\* The depth after the characters p+1..q, for the bracket at p.
RefDepth(doc, p, q) ==
    1 + Cardinality(Unescaped(doc, doc[p + 1], p + 1, q))
      - Cardinality(Unescaped(doc, getClosingChar(doc[p + 1]), p + 1, q))

\* The smallest offset after p at which the depth is 0, or -1.
RefClose(doc, p) ==
    LET zeros == {q \in (p + 1)..(Len(doc) - 1) : RefDepth(doc, p, q) = 0}
    IN  IF zeros = {} THEN -1
        ELSE CHOOSE q \in zeros : \A r \in zeros : q <= r

\* While findMatchingClose is at mpos, its depth is the count over p+1..mpos-1
\* and has been at least 1 all along.
DepthCounts ==
    (pc = "mclose" /\ openChar \in BracketOpeners) =>
        /\ document[pos + 1] = openChar
        /\ depth = RefDepth(document, pos, mpos - 1)
        /\ \A k \in pos..(mpos - 1) : RefDepth(document, pos, k) >= 1

\* findMatchingClose returns the first offset at which the depth is 0.
DepthReturns ==
    (pc = "mclose" /\ pc' = "fwd" /\ openChar \in BracketOpeners) =>
        IF RefClose(document, pos) = -1 THEN skips' = skips
        ELSE skips' = Append(skips, <<pos, RefClose(document, pos)>>)

MatchingCloseIsDepthZero == []DepthCounts /\ [][DepthReturns]_vars

\* findMatchingClose returned a match after it read an escaped closer of its
\* own bracket type.
MatchingCloseIsDepthZeroWitness ==
    /\ pc = "fwd"
    /\ skips # <<>>
    /\ \E k \in (skips[1][1] + 1)..(skips[1][2] - 1) :
           /\ document[k + 1] = getClosingChar(document[skips[1][1] + 1])
           /\ Escaped(document, k)

(***************************************************************************)
(* C20: bounded work per character.  During one exit scan for one cursor   *)
(* every position of the buffer is read at most a small constant number of *)
(* times, whatever the length of the buffer: here at most twice, once by   *)
(* the outer scan and once by a nested-pair sub-scan.                      *)
(***************************************************************************)
\* How many times the scan in progress has read offset k.
ReadCount(k) == Cardinality({j \in DOMAIN reads : reads[j] = k})

BoundedReadsPerPosition ==
    op = "exit" => \A k \in 0..(Len(document) - 1) : ReadCount(k) <= 2

(***************************************************************************)
(* C13: joinTwoGroupsInBackground with two editor groups.  After the       *)
(* command completes, the active tab of the merged group is the tab that   *)
(* was the active tab of the receiving (not active) group before the       *)
(* merge, whichever group the command was invoked from and however many    *)
(* tabs each group holds.                                                  *)
(***************************************************************************)
\* The group that was not the active one when the command was invoked.
Receiver == atCall.groups[3 - atCall.activeGroup]

ReceiverActiveTabRestored ==
    (hpc = "done" /\ Len(atCall.groups) = 2 /\ Receiver.active >= 0) =>
        activeTabs(groups[activeGroup]) = activeTabs(Receiver)

(***************************************************************************)
(* C14: when at most one editor group exists, joinTwoGroupsInBackground    *)
(* only shows the information message.  It never executes the built-in     *)
(* join command nor a next/previous-editor command, so the tabs and the    *)
(* active editor are the same after the command as before it.              *)
(***************************************************************************)
SingleGroupOnlyMessage ==
    Len(atCall.groups) <= 1 =>
        /\ groups = atCall.groups
        /\ activeGroup = atCall.activeGroup
        /\ \A k \in DOMAIN executed : executed[k][1] = "showInformationMessage"
        /\ hpc = "done" =>
               executed = << <<"showInformationMessage",
                               "No other editor group to merge with">> >>

\* The command returned in a host with a single group of two tabs.
SingleGroupOnlyMessageWitness ==
    /\ hpc = "done"
    /\ Len(atCall.groups) = 1
    /\ Len(groups[1].tabs) = 2
    /\ Len(executed) = 1

(***************************************************************************)
(* C15: saveAllWithoutFormatting preserves the active editor.  Every       *)
(* document that was dirty when the command started is shown and then      *)
(* saved with the save-without-formatting command, one after another: each *)
(* save is issued right after its document was made active.  When the      *)
(* command ends, the document of the editor that was active at invocation  *)
(* is the active one again.                                                *)
(***************************************************************************)
\* How many times the save command ran while doc was the active document.
SavesOf(doc) ==
    Cardinality({k \in DOMAIN executed :
        executed[k] = <<"workbench.action.files.saveWithoutFormatting", doc>>})

SaveAllPreservesActiveEditor ==
    /\ \A k \in DOMAIN executed :
           executed[k][1] = "workbench.action.files.saveWithoutFormatting" =>
               /\ k > 1
               /\ executed[k - 1] = <<"showTextDocument", executed[k][2]>>
    /\ hpc = "done" =>
           /\ \A doc \in DOMAIN atCall.isDirty :
                  SavesOf(doc) = IF atCall.isDirty[doc] THEN 1 ELSE 0
           /\ atCall.activeDocument # Null => activeDocument = atCall.activeDocument

\* The command returned after it saved two documents, the last of which is
\* not the one that was active at invocation.
SaveAllPreservesActiveEditorWitness ==
    /\ hpc = "done"
    /\ Len(dirtyDocs) >= 2
    /\ atCall.activeDocument # Null
    /\ atCall.activeDocument # dirtyDocs[Len(dirtyDocs)]
    /\ activeDocument = atCall.activeDocument
    /\ Len(executed) = 2 * Len(dirtyDocs) + 1

(***************************************************************************)
(* C19: restore navigation of joinTwoGroupsInBackground.  With n tabs in   *)
(* the merged active group, the active index cur and the index tgt of the  *)
(* tab to restore (both in 0..n-1), the computed direction and count       *)
(* satisfy count = min((tgt - cur) mod n, (cur - tgt) mod n) <= n div 2,   *)
(* and moving the active tab count steps in that direction with            *)
(* wrap-around from cur ends exactly at tgt; when cur = tgt no command is  *)
(* issued.                                                                 *)
(***************************************************************************)
\* The 0-based index of the tab to restore in the group the navigation began in.
TargetAtCall ==
    CHOOSE k \in 0..(Len(atCall.groups[1].tabs) - 1) :
        getTabId(atCall.groups[1].tabs[k + 1]) = restoreTabId

NavigationReachesTarget ==
    LET n == Len(atCall.groups[1].tabs)
        cur == atCall.groups[1].active
        tgt == TargetAtCall
    IN  /\ hpc \in {"navigate", "done"} =>
               /\ direction \in {"next", "previous"}
               /\ count = Min((tgt - cur) % n, (cur - tgt) % n)
               /\ count <= n \div 2
               /\ tgt = IF direction = "next" THEN (cur + count) % n
                        ELSE (cur - count) % n
        /\ hpc = "done" =>
               /\ groups[1].active = tgt
               /\ Len(executed) = count
               /\ \A k \in DOMAIN executed :
                      executed[k] = <<"executeCommand",
                                      "workbench.action." \o direction \o "EditorInGroup">>
               /\ cur = tgt => executed = <<>>

\* The navigation ended on the tab to restore after two steps backward that
\* wrapped around the first tab.
NavigationReachesTargetWitness ==
    /\ hpc = "done"
    /\ count = 2
    /\ direction = "previous"
    /\ atCall.groups[1].active < 2
    /\ groups[1].active = TargetAtCall
    /\ groups[1].active > atCall.groups[1].active

(***************************************************************************)
(* C21: reference characterization of the backward scan.  For every buffer *)
(* and cursor offset p, computeEnterSelections returns the offset found by *)
(* this walk: start at k = p - 1; while k >= 0, if k > 0 and the character *)
(* at k - 1 is a backslash then k := k - 2, else if the character at k is  *)
(* a closing delimiter then stop with k, else k := k - 1.  Bracket nesting *)
(* never changes the result: findMatchingOpen is only reached with an      *)
(* opening bracket, for which there is no partner, and returns not found.  *)
(***************************************************************************)
\* The walk, from offset k; -1 when it runs off the beginning.
RECURSIVE RefWalk(_, _)
RefWalk(doc, k) ==
    IF k < 0 THEN -1
    ELSE IF k > 0 /\ doc[k] = "\\" THEN RefWalk(doc, k - 2)
    ELSE IF doc[k + 1] \in ClosingDelimiters THEN k
    ELSE RefWalk(doc, k - 1)

\* The enter returned what the walk finds.
EnterIsWalk ==
    (pc = "done" /\ op = "enter") =>
        LET c == RefWalk(document, CursorOffset(1) - 1)
        IN  /\ found[1] = c
            /\ newSelections[1] =
                   IF c < 0 THEN selections[1]
                   ELSE Selection(positionAt(document, c), positionAt(document, c))

\* findMatchingOpen is entered with an opening bracket only.
MatchingOpenHasNoPartner ==
    pc = "mopen" => (closeChar \in BracketOpeners /\ openChar = Null)

\* findMatchingOpen returns not found, and the scan goes one character back.
MatchingOpenFindsNothing ==
    pc = "mopen" => (pc' = "bwd" /\ skips' = skips /\ pos' = pos - 1)

ResultOffset == offsetAt(document, newSelections[1].active)

\* The applications so far that found a closing delimiter.
Hits == {k \in DOMAIN found : found[k] >= 0}

\* One returned call: where its cursor went.
MovesOneWay ==
    pc = "done" =>
        /\ ResultOffset \in 0..Len(document)
        /\ IF found[Len(found)] >= 0
           THEN /\ newSelections # selections
                /\ IF op = "exit" THEN ResultOffset > CursorOffset(1)
                   ELSE ResultOffset < CursorOffset(1)
           ELSE newSelections = selections

\* The repetition: at most buffer-length calls move the cursor, and the call
\* after the last of them leaves it unchanged.
RepetitionEnds ==
    /\ Cardinality(Hits) <= Len(document)
    /\ Len(found) <= Len(document) + 1
    /\ (pc = "done" /\ Len(found) = Len(document) + 1) => newSelections = selections

\* The next call starts from a cursor further on in the operation's direction.
AgainFurtherOn ==
    (pc = "done" /\ pc' = "loop") =>
        LET before == offsetAt(document, selections[1].active)
            after == offsetAt(document', selections'[1].active)
        IN  IF op = "exit" THEN after > before ELSE after < before

ProgressUnderRepetition ==
    /\ []MovesOneWay
    /\ []RepetitionEnds
    /\ [][AgainFurtherOn]_vars

\* An exit repeated on its own output moved the cursor twice and then left it
\* unchanged.
ProgressUnderRepetitionWitness ==
    /\ pc = "done" /\ op = "exit"
    /\ Len(found) = 3
    /\ found[1] >= 0 /\ found[2] > found[1] /\ found[3] = -1
    /\ newSelections = selections

(***************************************************************************)
(* C23: only the active end of a selection matters.  Two input selections  *)
(* with the same active position and different anchors yield the same scan *)
(* result; every output selection that differs from its input is empty     *)
(* (anchor = active = new position), whereas on not found the input        *)
(* selection is returned with its original anchor and active, so a         *)
(* non-empty range stays non-empty.                                        *)
(***************************************************************************)
\* The position the operation puts the cursor at for the closing delimiter c.
NewPositionFor(c) ==
    positionAt(document, IF op = "exit" THEN c + 1 ELSE c)

OnlyActiveEndMatters ==
    pc = "done" =>
        /\ \A j, k \in DOMAIN selections :
               selections[j].active = selections[k].active =>
                   /\ found[j] = found[k]
                   /\ found[j] >= 0 => newSelections[j] = newSelections[k]
        /\ \A j \in DOMAIN selections :
               /\ newSelections[j] # selections[j] =>
                      /\ found[j] >= 0
                      /\ newSelections[j].anchor = newSelections[j].active
                      /\ newSelections[j].active = NewPositionFor(found[j])
               /\ found[j] < 0 => newSelections[j] = selections[j]

\* A call returned for a reversed range and a cursor with the same active end:
\* both became the same empty selection.
OnlyActiveEndMattersWitness ==
    /\ pc = "done"
    /\ selections[1].active = selections[2].active
    /\ selections[1].anchor # selections[1].active
    /\ offsetAt(document, selections[1].anchor) > offsetAt(document, selections[1].active)
    /\ selections[2].anchor = selections[2].active
    /\ found[1] >= 0
    /\ newSelections[1] = newSelections[2]
    /\ newSelections[1] # selections[1]

====
